---- MODULE Spec2Model ----
(***************************************************************************)
(* Model of chainerio.cache.file_cache: the reader-writer lock RWLock, its *)
(* no-op variant DummyLock, and FileCache (get / put / close) on top of an *)
(* index file of (offset, length) records and an append-only data file.    *)
(*                                                                         *)
(* Every thread runs calls one after the other.  A call is cut into steps  *)
(* at the places where another thread can interleave: the unlocked check   *)
(* of self.closed, the acquisition of the lock, and every positioned read  *)
(* or write on the two files.  The outcome of a write (bytes transferred,  *)
(* or an OSError) is an input chosen by the environment.  The cache is     *)
(* built with do_pickle=False: payloads are the bytes given.               *)
(*                                                                         *)
(* A definition named X_bad is X with a slip in it; the properties at the  *)
(* end are required to tell the two apart.                                 *)
(***************************************************************************)
EXTENDS Integers, Sequences, FiniteSets, TLC

VARIABLES
    length,     \* FileCache.length: the number of slots
    mt,         \* FileCache._multithread_safe: RWLock (TRUE) or DummyLock
    threads,    \* the threads that call into the cache
    faults,     \* the failures the environment can answer a write with
    index,      \* contents of the index file: slot -> packed record
    data,       \* contents of the data file: a sequence of bytes
    pos,        \* FileCache.pos: the append cursor
    closed,     \* FileCache.closed
    indexfp,    \* FileCache.indexfp: "open" or "None"
    datafp,     \* FileCache.datafp: "open" or "None"
    writer,     \* RWLock.writer: a thread id, or None
    reader,     \* RWLock.reader: a set of thread ids
    calls,      \* per thread: the calls it may still start (< 0: any number)
    pc,         \* per thread: the place in the code
    op,         \* per thread: the call in progress or last finished
    arg_i,      \* per thread: the argument i
    arg_data,   \* per thread: the argument data
    l,          \* per thread: the local l unpacked from the index record
    o,          \* per thread: the local o unpacked from the index record
    lpos,       \* per thread: the local pos of _put
    current_pos,\* per thread: the local current_pos of _put
    res,        \* per thread: what the last call returned or raised
    errno,      \* per thread: the I/O failure the environment injected
    first,      \* history: slot -> payload of the put that wrote its record
    stored,     \* history: slot -> payload of the put that returned True
    targeted,   \* history: slots a put was called on
    exhausted   \* history: some put failed with ENOSPC

fvars == <<index, data, pos, closed, indexfp, datafp>>
lvars == <<writer, reader>>
tvars == <<calls, pc, op, arg_i, arg_data, l, o, lpos, current_pos, res, errno>>
hvars == <<first, stored, targeted, exhausted>>
cvars == <<length, mt, threads, faults>>
vars == <<cvars, fvars, lvars, tvars, hvars>>

(***************************************************************************)
(* Bounds of the model.                                                    *)
(***************************************************************************)
MaxLength == 2      \* largest capacity tried
MaxLen == 2         \* longest payload tried
NThreads == 2       \* threads of the multithreaded specification
MaxCalls == 2       \* calls per thread where the threads make finitely many

Bytes == {1, 2}
Threads == 1..NThreads
None == 0           \* RWLock.writer when no writer is registered

\* n bytes b
Rep(b, n) == [k \in 1..n |-> b]

\* the payloads thread t puts: with one thread, every byte string up to
\* MaxLen; with several threads each thread writes its own id, so that the
\* bytes a get returns name the thread that wrote them
BytesOf(t) == IF Cardinality(threads) = 1 THEN Bytes ELSE {t}
PayloadsOf(t) == UNION {[1..n -> BytesOf(t)] : n \in 0..MaxLen}

NoVal == <<0>>      \* "no payload recorded" in the history variables

(***************************************************************************)
(* Results of a call.                                                      *)
(***************************************************************************)
RNone == [k |-> "None", v |-> <<>>]
RTrue == [k |-> "True", v |-> <<>>]
RFalse == [k |-> "False", v |-> <<>>]
RData(d) == [k |-> "data", v |-> d]
Raise(e) == [k |-> e, v |-> <<>>]
Raised(r) == r.k \in {"AssertionError", "OSError", "AttributeError"}

(***************************************************************************)
(* struct.pack('Qq', o, l) / struct.unpack('Qq', buf): the record is kept  *)
(* as its two fields; all values of the model fit the two 64-bit fields.   *)
(***************************************************************************)
pack(off, len) == [o |-> off, l |-> len]
unpack(buf) == <<buf.o, buf.l>>

\* the record every slot is initialised with (line 119)
EMPTY_BAD == pack(0, 0)     \* length 0 for -1
EMPTY == pack(0, -1)

(***************************************************************************)
(* os.pread(fd, n, off) and os.pwrite(fd, b, off) on a file held as a      *)
(* sequence of bytes (offsets are 0-based, a hole reads as 0).             *)
(***************************************************************************)
Min(a, b) == IF a < b THEN a ELSE b
Max(a, b) == IF a > b THEN a ELSE b

pread(f, n, off) ==
    [k \in 1..Max(0, Min(n, Len(f) - off)) |-> f[off + k]]

\* pwrite_bad: the offset is ignored, the bytes land at the start
pwrite_bad(f, b, off) ==
    [k \in 1..Max(Len(f), Len(b)) |->
        IF k <= Len(b) THEN b[k] ELSE f[k]]
pwrite(f, b, off) ==
    [k \in 1..Max(Len(f), off + Len(b)) |->
        IF k > off /\ k <= off + Len(b) THEN b[k - off]
        ELSE IF k <= Len(f) THEN f[k] ELSE 0]

\* data[current_pos-pos:] cut to the r bytes one pwrite call transfers
\* Chunk_bad: the slice always starts at the first byte of the payload
Chunk_bad(d, from, r) == [k \in 1..r |-> d[k]]
Chunk(d, from, r) == [k \in 1..r |-> d[from + k]]


(***************************************************************************)
(* RWLock (lines 25-59) and DummyLock (lines 62-76).                       *)
(***************************************************************************)
\* rdlock's wait_for condition (line 39)
rdlockReady_bad == TRUE     \* does not wait for the writer
\* rdlockReady_polite_bad: a reader also waits while a wrlock is waiting
rdlockReady_polite_bad ==
    writer = None /\ \A u \in Threads : pc[u] # "wrlock"
rdlockReady == writer = None

\* wrlock's wait_for condition for thread_id (lines 46-48)
\* wrlockReady_bad: does not wait for the readers
wrlockReady_bad(thread_id) == writer = None /\ writer # thread_id
wrlockReady(thread_id) ==
    writer = None /\ writer # thread_id /\ Cardinality(reader) = 0

\* unlock (lines 52-59), called by LockContext.__exit__ on every way out of
\* a with block; DummyLock.unlock does nothing
\* unlock_bad: the writer is not deregistered
unlock_bad(t) ==
    IF mt
    THEN IF writer = t
         THEN UNCHANGED lvars
         ELSE writer' = writer /\ reader' = reader \ {t}
    ELSE UNCHANGED lvars
unlock(t) ==
    IF mt
    THEN IF writer = t
         THEN writer' = None /\ reader' = reader
         ELSE writer' = writer /\ reader' = reader \ {t}
    ELSE UNCHANGED lvars

(***************************************************************************)
(* FileCache.                                                              *)
(***************************************************************************)
Slots == 0..(length - 1)

\* the assertion of _get and _put on i (lines 151, 180)
InRange_bad(i) == i >= 0 /\ i <= length     \* off by one
InRange(i) == i >= 0 /\ i < length

\* the test of self.closed that get and _put start with (lines 143, 178)
IsClosed_bad == FALSE     \* the test is missing
IsClosed == closed

\* the except clause of put (lines 169-175): what put gives for an OSError
PutExcept_bad(e) == Raise("OSError")     \* ENOSPC raised like the rest
PutExcept(e) == IF e = "ENOSPC" THEN RFalse ELSE Raise("OSError")

\* _get's test for an empty record (line 156)
IsEmptyRecord(ll, oo) == ll < 0 \/ oo < 0
\* _put's test for a filled record (line 186)
IsFilledRecord(ll, oo) == ll >= 0 /\ oo >= 0

\* the call of thread t returns or raises r; its locals are gone
Return(t, r) ==
    /\ pc' = [pc EXCEPT ![t] = "done"]
    /\ res' = [res EXCEPT ![t] = r]
    /\ arg_data' = [arg_data EXCEPT ![t] = <<>>]
    /\ o' = [o EXCEPT ![t] = 0]
    /\ lpos' = [lpos EXCEPT ![t] = 0]
    /\ current_pos' = [current_pos EXCEPT ![t] = 0]

\* thread t goes on to the next place of its call
Goto(t, at) ==
    /\ pc' = [pc EXCEPT ![t] = at]
    /\ UNCHANGED <<res, arg_data>>

\* thread t, between two calls, starts one with arguments i and d
Begin(t, what, i) ==
    /\ t \in threads
    /\ pc[t] \in {"idle", "done"}
    /\ calls[t] # 0
    /\ calls' = [calls EXCEPT ![t] = IF @ > 0 THEN @ - 1 ELSE @]
    /\ op' = [op EXCEPT ![t] = what]
    /\ arg_i' = [arg_i EXCEPT ![t] = i]
    /\ l' = [l EXCEPT ![t] = 0]
    /\ errno' = [errno EXCEPT ![t] = "none"]
    /\ UNCHANGED <<cvars, fvars, lvars, first, stored, exhausted>>

\* the start of get(i) and of put(i, data), up to the lock: the test of
\* self.closed, then the assertion on i (lines 142-152, 163-181)
Enter(t, d, at) ==
    IF IsClosed
    THEN Return(t, RNone)
    ELSE IF ~InRange(arg_i'[t])
         THEN Return(t, Raise("AssertionError"))
         ELSE /\ pc' = [pc EXCEPT ![t] = at]
              /\ arg_data' = [arg_data EXCEPT ![t] = d]
              /\ res' = [res EXCEPT ![t] = RNone]
              /\ UNCHANGED <<o, lpos, current_pos>>

\* a thread calls get(i) (lines 142-152)
get(t) ==
    \E i \in -1..length :
        /\ Begin(t, "get", i)
        /\ Enter(t, <<>>, "rdlock")
        /\ UNCHANGED targeted

\* a thread calls put(i, data) (lines 163-181)
put(t) ==
    \E i \in -1..length, d \in PayloadsOf(t) :
        /\ Begin(t, "put", i)
        /\ Enter(t, d, "wrlock")
        /\ targeted' = targeted \cup ({i} \cap Slots)

\* a thread calls close() (line 229)
close(t) ==
    /\ Begin(t, "close", 0)
    /\ pc' = [pc EXCEPT ![t] = "wrlock"]
    /\ res' = [res EXCEPT ![t] = RNone]
    /\ UNCHANGED <<arg_data, o, lpos, current_pos, targeted>>

\* self.lock.rdlock() (line 153; RWLock.rdlock lines 37-41)
rdlock(t) ==
    /\ pc[t] = "rdlock"
    /\ mt => rdlockReady
    /\ reader' = IF mt THEN reader \cup {t} ELSE reader
    /\ Goto(t, "_get")
    /\ UNCHANGED <<cvars, fvars, writer, hvars>>
    /\ UNCHANGED <<calls, op, arg_i, l, o, lpos, current_pos, errno>>

\* what _get gives for slot i inside the lock: it reads and tests the index
\* record, then reads the payload (lines 154-161); a handle that is None
\* has no fileno()
_get_result(i) ==
    IF indexfp = "None"
    THEN Raise("AttributeError")
    ELSE LET ol == unpack(index[i])
             d == pread(data, ol[2], ol[1])
         IN  IF IsEmptyRecord(ol[2], ol[1])
             THEN RNone
             ELSE IF datafp = "None"
                  THEN Raise("AttributeError")
                  ELSE IF Len(d) # ol[2]
                       THEN Raise("AssertionError")
                       ELSE RData(d)

\* what _get does to the cache: it only reads, with positioned reads that
\* move no file offset, and assigns to no attribute (lines 150-161)
\* _get_effect_bad: the offset after the payload is kept in self.pos
_get_effect_bad(t) ==
    /\ pos' = IF indexfp = "None" \/ index[arg_i[t]].l < 0
              THEN pos
              ELSE index[arg_i[t]].o + index[arg_i[t]].l
    /\ UNCHANGED <<index, data, closed, indexfp, datafp>>
_get_effect(t) == UNCHANGED <<index, data, pos, closed, indexfp, datafp>>

\* _get inside the lock (lines 153-161)
_get(t) ==
    /\ pc[t] = "_get"
    /\ Return(t, _get_result(arg_i[t]))
    /\ l' = [l EXCEPT ![t] = IF indexfp = "None"
                             THEN @
                             ELSE unpack(index[arg_i[t]])[2]]
    /\ unlock(t)
    /\ _get_effect(t)
    /\ UNCHANGED <<cvars, hvars>>
    /\ UNCHANGED <<calls, op, arg_i, errno>>

\* self.lock.wrlock() of _put and close (lines 183, 230; RWLock.wrlock
\* lines 43-50)
wrlock(t) ==
    /\ pc[t] = "wrlock"
    /\ mt => wrlockReady(t)
    /\ writer' = IF mt THEN t ELSE writer
    /\ Goto(t, IF op[t] = "put" THEN "_put" ELSE "close_body")
    /\ UNCHANGED <<cvars, fvars, reader, hvars>>
    /\ UNCHANGED <<calls, op, arg_i, l, o, lpos, current_pos, errno>>

\* the OSErrors a write can raise: ENOSPC (errno 28, line 171) and one other
OSErrors == {"ENOSPC", "EIO"}
\* all the ways a write can go wrong: an OSError, or no byte transferred
\* (line 216)
AllFaults == OSErrors \cup {"ZERO"}

\* an os.pwrite call of _put that raises OSError e: put's except clause
\* decides the result, the with block releases the lock
\* write_fails_bad: the lock is not released when the exception leaves
write_fails_bad(t, e) ==
    /\ errno' = [errno EXCEPT ![t] = e]
    /\ Return(t, PutExcept(e))
    /\ UNCHANGED lvars
    /\ exhausted' = (exhausted \/ e = "ENOSPC")
    /\ UNCHANGED <<first, stored, targeted>>
write_fails(t, e) ==
    /\ errno' = [errno EXCEPT ![t] = e]
    /\ Return(t, PutExcept(e))
    /\ unlock(t)
    /\ exhausted' = (exhausted \/ e = "ENOSPC")
    /\ UNCHANGED <<first, stored, targeted>>

\* _put inside the lock: read the index record, give up on a filled one,
\* take the cursor and write the record (pos, len(data)) (lines 184-212)
_put(t) ==
    /\ pc[t] = "_put"
    /\ IF indexfp = "None"
       THEN /\ Return(t, Raise("AttributeError"))
            /\ unlock(t)
            /\ UNCHANGED <<l, index, errno, hvars>>
       ELSE LET ol == unpack(index[arg_i[t]])
            IN  /\ l' = [l EXCEPT ![t] = ol[2]]
                /\ IF IsFilledRecord(ol[2], ol[1])
                   THEN /\ Return(t, RFalse)
                        /\ unlock(t)
                        /\ UNCHANGED <<index, errno, hvars>>
                   ELSE \E e \in {"none"} \cup (faults \cap OSErrors) :
                          IF e = "none"
                          THEN /\ index' = [index EXCEPT
                                      ![arg_i[t]] = pack(pos, Len(arg_data[t]))]
                               /\ lpos' = [lpos EXCEPT ![t] = pos]
                               /\ current_pos' = [current_pos EXCEPT ![t] = pos]
                               /\ first' = [first EXCEPT ![arg_i[t]] = arg_data[t]]
                               /\ Goto(t, "put_data")
                               /\ UNCHANGED <<o, errno, lvars>>
                               /\ UNCHANGED <<stored, targeted, exhausted>>
                          ELSE /\ write_fails(t, e)
                               /\ UNCHANGED index
    /\ UNCHANGED <<cvars, data, pos, closed, indexfp, datafp>>
    /\ UNCHANGED <<calls, op, arg_i>>

\* _put: one turn of the loop that writes the payload (lines 213-217); the
\* call transfers r bytes of what is left, or raises
put_data(t) ==
    /\ pc[t] = "put_data"
    /\ current_pos[t] - lpos[t] < Len(arg_data[t])
    /\ LET left == Len(arg_data[t]) - (current_pos[t] - lpos[t])
       IN  \/ \E r \in (IF "ZERO" \in faults THEN 0 ELSE 1)..left :
                IF r > 0
                THEN /\ data' = pwrite(data,
                              Chunk(arg_data[t], current_pos[t] - lpos[t], r),
                              current_pos[t])
                     /\ current_pos' = [current_pos EXCEPT ![t] = @ + r]
                     /\ Goto(t, "put_data")
                     /\ UNCHANGED <<o, lpos, errno, lvars, hvars>>
                ELSE /\ errno' = [errno EXCEPT ![t] = "ZERO"]
                     /\ Return(t, Raise("AssertionError"))
                     /\ unlock(t)
                     /\ UNCHANGED <<data, first, stored, targeted, exhausted>>
           \/ \E e \in faults \cap OSErrors :
                /\ write_fails(t, e)
                /\ UNCHANGED data
    /\ UNCHANGED <<cvars, index, pos, closed, indexfp, datafp>>
    /\ UNCHANGED <<calls, op, arg_i, l>>

\* self.pos += len(data) (line 220)
advance_bad(p, d) == Len(d)     \* = for +=
advance(p, d) == p + Len(d)

\* _put: the payload is written; advance the cursor and return True
\* (lines 218-221)
put_done(t) ==
    /\ pc[t] = "put_data"
    /\ ~(current_pos[t] - lpos[t] < Len(arg_data[t]))
    /\ IF current_pos[t] - lpos[t] = Len(arg_data[t])
       THEN /\ pos' = advance(pos, arg_data[t])
            /\ Return(t, RTrue)
            /\ stored' = [stored EXCEPT ![arg_i[t]] = arg_data[t]]
       ELSE /\ Return(t, Raise("AssertionError"))
            /\ UNCHANGED <<pos, stored>>
    /\ unlock(t)
    /\ UNCHANGED <<cvars, index, data, closed, indexfp, datafp>>
    /\ UNCHANGED <<first, targeted, exhausted>>
    /\ UNCHANGED <<calls, op, arg_i, l, errno>>

\* the test close makes before it releases the handles (line 231)
CloseNeeded_bad == TRUE     \* the test is missing
CloseNeeded == ~closed

\* close, inside the lock (lines 231-236)
close_body(t) ==
    /\ pc[t] = "close_body"
    /\ IF CloseNeeded
       THEN /\ closed' = TRUE
            /\ IF indexfp = "None" \/ datafp = "None"
               THEN \* None has no close()
                    /\ Return(t, Raise("AttributeError"))
                    /\ UNCHANGED <<indexfp, datafp>>
               ELSE /\ indexfp' = "None"
                    /\ datafp' = "None"
                    /\ Return(t, RNone)
       ELSE /\ Return(t, RNone)
            /\ UNCHANGED <<closed, indexfp, datafp>>
    /\ unlock(t)
    /\ UNCHANGED <<cvars, index, data, pos, hvars>>
    /\ UNCHANGED <<calls, op, arg_i, l, errno>>

(***************************************************************************)
(* FileCache.__init__ (lines 93-129) and RWLock.__init__ (lines 32-35).    *)
(***************************************************************************)
Init ==
    /\ length \in 1..MaxLength
    /\ index = [i \in 0..(length - 1) |-> EMPTY]
    /\ data = <<>>
    /\ pos = 0
    /\ closed = FALSE
    /\ indexfp = "open"
    /\ datafp = "open"
    /\ writer = None
    /\ reader = {}
    /\ pc = [t \in Threads |-> "idle"]
    /\ op = [t \in Threads |-> "none"]
    /\ arg_i = [t \in Threads |-> 0]
    /\ arg_data = [t \in Threads |-> <<>>]
    /\ l = [t \in Threads |-> 0]
    /\ o = [t \in Threads |-> 0]
    /\ lpos = [t \in Threads |-> 0]
    /\ current_pos = [t \in Threads |-> 0]
    /\ res = [t \in Threads |-> RNone]
    /\ errno = [t \in Threads |-> "none"]
    /\ first = [i \in 0..(length - 1) |-> NoVal]
    /\ stored = [i \in 0..(length - 1) |-> NoVal]
    /\ targeted = {}
    /\ exhausted = FALSE

\* one thread, with either lock
InitSeq ==
    /\ Init /\ threads = {1} /\ mt \in BOOLEAN /\ faults = AllFaults
    /\ calls = [t \in Threads |-> -1]

\* several threads on a cache built with multithread_safe=True
InitMT ==
    /\ Init /\ threads = Threads /\ mt = TRUE /\ faults = AllFaults
    /\ calls = [t \in Threads |-> -1]

Next ==
    \E t \in Threads :
        \/ get(t)
        \/ rdlock(t)
        \/ _get(t)
        \/ put(t)
        \/ wrlock(t)
        \/ _put(t)
        \/ put_data(t)
        \/ put_done(t)
        \/ close(t)
        \/ close_body(t)

Spec == InitSeq /\ [][Next]_vars

SpecMT == InitMT /\ [][Next]_vars

\* several threads, RWLock, and an environment in which no write fails (a
\* write may still transfer only part of what is left)
InitMTNoFault ==
    /\ Init /\ threads = Threads /\ mt = TRUE /\ faults = {}
    /\ calls = [t \in Threads |-> -1]

SpecMTNoFault == InitMTNoFault /\ [][Next]_vars

\* several threads, RWLock, all write failures, and every thread makes a
\* finite sequence of calls: at most MaxCalls each
InitFinite ==
    /\ Init /\ threads = Threads /\ mt = TRUE /\ faults = AllFaults
    /\ calls = [t \in Threads |-> MaxCalls]

\* the steps of thread t inside a call.  A thread that is inside a call is
\* runnable and gets the processor again and again, and notify_all (line
\* 59) wakes every thread waiting in wait_for, which then tests its
\* condition again: a step that stays possible is taken in the end.
\* Nothing makes a thread start a call.
Run(t) ==
    \/ rdlock(t) \/ _get(t)
    \/ wrlock(t) \/ _put(t) \/ put_data(t) \/ put_done(t)
    \/ close_body(t)

Fairness == \A t \in Threads : WF_vars(Run(t))

SpecFinite == InitFinite /\ [][Next]_vars /\ Fairness


(***************************************************************************)
(* Vocabulary of the properties.                                           *)
(***************************************************************************)
\* thread t has finished a call and not started the next
Done(t, what) == t \in threads /\ pc[t] = "done" /\ op[t] = what

\* thread t starts a call in this step
Calls(t) ==
    /\ pc[t] \in {"idle", "done"}
    /\ <<pc[t], op[t], arg_i[t], res[t]>> # <<pc'[t], op'[t], arg_i'[t], res'[t]>>

Filled(i) == index[i].l >= 0

\* the lock is held by nobody
GateFree == writer = None /\ reader = {}

(***************************************************************************)
(* C1. Round trip, one thread: a put on an empty slot of an open cache     *)
(* whose writes do not fail returns True, and every later get on a slot    *)
(* whose put returned True returns exactly the payload of that put, for    *)
(* every capacity, slot and payload (the empty payload too), whatever      *)
(* successful or failed calls on other slots come before or in between.    *)
(***************************************************************************)
C1_RoundTrip ==
    \A t \in threads :
        /\ (Done(t, "put") /\ l[t] < 0 /\ errno[t] = "none")
              => res[t] = RTrue /\ stored[arg_i[t]] # NoVal
        /\ (Done(t, "get") /\ ~closed /\ InRange(arg_i[t])
                /\ stored[arg_i[t]] # NoVal)
              => res[t] = RData(stored[arg_i[t]])

\* a get returns a payload stored behind another one, after a put on
\* another slot failed
C1_Witness ==
    \E t \in threads :
        /\ Done(t, "get") /\ ~closed /\ InRange(arg_i[t])
        /\ res[t].k = "data" /\ Len(res[t].v) = MaxLen
        /\ index[arg_i[t]].o > 0
        /\ exhausted

(***************************************************************************)
(* C2. At-most-once write, one thread: on an open cache a put that finds   *)
(* the slot's record filled returns False, and a get on a slot whose       *)
(* record is filled returns the payload of the put that filled it.         *)
(* (That a filled record never changes again is C2_RecordImmutable.)       *)
(***************************************************************************)
C2_AtMostOnceWrite ==
    \A t \in threads :
        /\ (Done(t, "put") /\ ~closed /\ InRange(arg_i[t]) /\ l[t] >= 0)
              => res[t] = RFalse
        /\ (Done(t, "get") /\ ~closed /\ InRange(arg_i[t]) /\ Filled(arg_i[t]))
              => res[t] = RData(first[arg_i[t]])

\* a filled record never changes, and a put that finds the record filled
\* changes neither file nor the cursor
C2_RecordImmutable ==
    [][/\ \A i \in Slots : Filled(i) => index'[i] = index[i]
       /\ \A t \in threads :
             (pc[t] = "_put" /\ Filled(arg_i[t]))
                => UNCHANGED <<index, data, pos>>]_vars

(***************************************************************************)
(* C3. Every slot no put was ever called on holds the empty record         *)
(* (offset 0, length -1), from construction on, and a get on such a slot   *)
(* returns None, whatever happened on the other slots.                     *)
(***************************************************************************)
C3_NeverWritten ==
    /\ \A i \in Slots \ targeted : index[i] = pack(0, -1)
    /\ \A t \in threads :
          (Done(t, "get") /\ arg_i[t] \in Slots \ targeted) => res[t] = RNone

\* a get on an untouched slot of an open cache returns None while another
\* slot holds a payload
C3_Witness ==
    \E t \in threads :
        /\ Done(t, "get") /\ ~closed /\ arg_i[t] \in Slots \ targeted
        /\ res[t] = RNone /\ l[t] = -1
        /\ \E j \in Slots : stored[j] # NoVal /\ Len(stored[j]) > 0

(***************************************************************************)
(* C4. A get or put with i < 0 or i >= length.                             *)
(***************************************************************************)
\* C4 as claimed: such a call raises the assertion error in every state of
\* the cache, open or closed
C4_OutOfRangeAlways ==
    \A t \in threads :
        ((Done(t, "get") \/ Done(t, "put")) /\ ~InRange(arg_i[t]))
           => res[t] = Raise("AssertionError")

\* C4 as amended: on an open cache a get or put with i < 0 or i >= length
\* raises the assertion error; on a closed cache it returns None without an
\* error; either way the call ends at once and changes no index record, no
\* byte of the data file and not the cursor
C4_OutOfRange ==
    [][\A t \in threads :
          (Calls(t) /\ op'[t] \in {"get", "put"} /\ ~(arg_i'[t] \in Slots))
             => /\ pc'[t] = "done"
                /\ res'[t] = IF closed THEN RNone ELSE Raise("AssertionError")
                /\ UNCHANGED <<index, data, pos, closed, writer, reader>>]_vars

\* an out-of-range put has raised on an open cache that holds a payload
C4_Witness ==
    \E t \in threads :
        /\ Done(t, "put") /\ arg_i[t] = length /\ ~closed
        /\ res[t] = Raise("AssertionError")
        /\ \E j \in Slots : stored[j] # NoVal

(***************************************************************************)
(* C5. Use after close, one thread: once close() has returned, every get   *)
(* returns None, also on slots filled before, and every put returns None   *)
(* without raising, also on empty slots; no call changes the index, the    *)
(* data file or the cursor any more.                                       *)
(***************************************************************************)
C5_UseAfterClose ==
    [][closed =>
          /\ UNCHANGED <<index, data, pos, closed>>
          /\ \A t \in threads :
                (Calls(t) /\ op'[t] \in {"get", "put"})
                   => pc'[t] = "done" /\ res'[t] = RNone]_vars

\* after close, a get on a slot that holds a payload has returned None
C5_Witness ==
    \E t \in threads :
        /\ Done(t, "get") /\ closed /\ InRange(arg_i[t])
        /\ stored[arg_i[t]] # NoVal
        /\ res[t] = RNone
        /\ \E j \in Slots : ~Filled(j)

(***************************************************************************)
(* C6. Storage exhaustion is not fatal, one thread: a put whose write      *)
(* fails with ENOSPC returns False without raising and leaves the lock     *)
(* free; after that a put on an empty slot whose writes succeed returns    *)
(* True, and get returns its payload.                                      *)
(***************************************************************************)
C6_ExhaustionNonFatal ==
    \A t \in threads :
        /\ (Done(t, "put") /\ errno[t] = "ENOSPC")
              => res[t] = RFalse /\ GateFree
        /\ (exhausted /\ Done(t, "put") /\ l[t] < 0 /\ errno[t] = "none")
              => /\ res[t] = RTrue
                 /\ pread(data, index[arg_i[t]].l, index[arg_i[t]].o)
                       = stored[arg_i[t]]
        /\ (exhausted /\ Done(t, "get") /\ ~closed /\ InRange(arg_i[t])
                /\ stored[arg_i[t]] # NoVal)
              => res[t] = RData(stored[arg_i[t]])

\* after a put on one slot failed with ENOSPC part way, a put on another
\* slot has returned True under the real lock
C6_Witness ==
    \E t \in threads :
        /\ Done(t, "put") /\ res[t] = RTrue /\ exhausted /\ mt
        /\ Len(stored[arg_i[t]]) = MaxLen
        /\ \E j \in Slots : j # arg_i[t] /\ Filled(j) /\ stored[j] = NoVal

(***************************************************************************)
(* C7. A put that fails (False for ENOSPC, or an error raised by another   *)
(* failure of a write) leaves the slot's record the empty record, so that  *)
(* a later get misses and a later put is not turned away.                  *)
(***************************************************************************)
C7_FailedPutLeavesEmpty ==
    \A t \in threads :
        (Done(t, "put") /\ errno[t] # "none" /\ l[t] < 0)
           => index[arg_i[t]] = EMPTY

(***************************************************************************)
(* C8. Write order inside put: in no state is a slot's record filled while *)
(* its payload is not yet completely in the data file at that offset.      *)
(***************************************************************************)
C8_DataBeforeIndex ==
    \A i \in Slots :
        Filled(i) => pread(data, index[i].l, index[i].o) = first[i]

(***************************************************************************)
(* C9. No torn reads under RWLock: when no write fails, as long as the     *)
(* cache is not closed, every call on a valid slot ends without an error   *)
(* and every get returns None or exactly the payload of the put that       *)
(* returned True on that slot, however the threads interleave.             *)
(***************************************************************************)
C9_NoTornReads ==
    ~closed =>
        \A t \in threads :
            (pc[t] = "done" /\ InRange(arg_i[t])) =>
                /\ ~Raised(res[t])
                /\ op[t] = "get" =>
                      \/ res[t] = RNone
                      \/ /\ stored[arg_i[t]] # NoVal
                         /\ res[t] = RData(stored[arg_i[t]])

\* a thread has got the whole payload another thread put, while that other
\* thread is in the middle of writing the payload of another slot
C9_Witness ==
    /\ ~closed
    /\ \E t \in threads, u \in threads :
          /\ t # u
          /\ Done(t, "get") /\ res[t] = RData(Rep(u, MaxLen))
          /\ pc[u] = "put_data" /\ Len(arg_data[u]) = MaxLen
          /\ current_pos[u] - lpos[u] = 1

(***************************************************************************)
(* C10. Mutual exclusion of RWLock: at most one thread is inside a write   *)
(* section (_put or close) and it is the registered writer; while there is *)
(* one, no thread is inside a read section and the reader set is empty;    *)
(* the threads inside a read section are exactly the registered readers.   *)
(***************************************************************************)
InWrite == {t \in Threads : pc[t] \in {"_put", "put_data", "close_body"}}
InRead == {t \in Threads : pc[t] = "_get"}

C10_MutualExclusion ==
    /\ Cardinality(InWrite) <= 1
    /\ InWrite = (IF writer = None THEN {} ELSE {writer})
    /\ InRead = reader
    /\ writer # None => reader = {}

\* all threads are registered as readers at once
C10_Witness == reader = Threads /\ writer = None /\ NThreads > 1

(***************************************************************************)
(* C11. Whenever no put is between its index write and its return, also   *)
(* after a put that failed or was cut short, every filled index record     *)
(* lies inside the data log: its offset plus its length is at most the     *)
(* size of the data log.                                                   *)
(***************************************************************************)
NoPutInFlight == \A t \in Threads : pc[t] # "put_data"

C11_DataLogBound ==
    NoPutInFlight =>
        \A i \in Slots : Filled(i) => index[i].o + index[i].l <= Len(data)

(***************************************************************************)
(* C12. The byte ranges [offset, offset + length) of two distinct filled   *)
(* records of positive length do not overlap, after any sequence of        *)
(* successful and failed puts that have returned.                          *)
(***************************************************************************)
C12_RangesDisjoint ==
    NoPutInFlight =>
        \A i \in Slots, j \in Slots :
            (/\ i # j
             /\ Filled(i) /\ index[i].l > 0
             /\ Filled(j) /\ index[j].l > 0)
                => \/ index[i].o + index[i].l <= index[j].o
                   \/ index[j].o + index[j].l <= index[i].o

(***************************************************************************)
(* C13. close is idempotent.  Every close ends with the cache closed and   *)
(* both file handles released, returns None without raising and leaves the *)
(* write lock it took; a close on a cache that is already closed changes   *)
(* nothing of the cache.  No close touches the index, the data log or the  *)
(* cursor.                                                                 *)
(***************************************************************************)
C13_CloseEnds(t) ==
    (pc[t] = "close_body" /\ pc'[t] = "done") =>
        /\ closed' /\ indexfp' = "None" /\ datafp' = "None"
        /\ res'[t] = RNone
        /\ writer' # t /\ t \notin reader'
        /\ closed => UNCHANGED fvars
        /\ UNCHANGED <<index, data, pos>>

C13_CloseIdempotent == [][\A t \in Threads : C13_CloseEnds(t)]_vars

\* every thread has closed the cache: all closes but one found it closed
C13_Witness ==
    /\ Cardinality(threads) > 1
    /\ \A t \in threads : Done(t, "close") /\ res[t] = RNone
    /\ closed /\ indexfp = "None" /\ datafp = "None"
    /\ GateFree

(***************************************************************************)
(* C14. get has no effect on the cache: no step of a get changes an index  *)
(* record, the data log, the cursor, the closed flag or a handle; and what *)
(* a get on a filled slot of an open cache returned is what the same get   *)
(* returns when it is repeated in the state the first one left.            *)
(***************************************************************************)
GetStep(t) ==
    /\ op'[t] = "get"
    /\ <<pc[t], op[t], arg_i[t], res[t]>> # <<pc'[t], op'[t], arg_i'[t], res'[t]>>

C14_GetStep(t) ==
    GetStep(t) =>
        /\ UNCHANGED <<index, data, pos, closed, indexfp, datafp>>
        /\ (/\ pc'[t] = "done" /\ ~closed
            /\ InRange(arg_i'[t]) /\ Filled(arg_i'[t]))
               => res'[t] = (_get_result(arg_i[t]))'

C14_GetPure == [][\A t \in Threads : C14_GetStep(t)]_vars

\* a get has returned the longest payload, stored after other bytes
C14_Witness ==
    /\ ~closed
    /\ \E t \in threads :
          /\ Done(t, "get") /\ InRange(arg_i[t])
          /\ index[arg_i[t]].o > 0
          /\ res[t].k = "data" /\ Len(res[t].v) = MaxLen
          /\ res[t] = RData(stored[arg_i[t]])

(***************************************************************************)
(* C15. The append cursor starts at 0, never decreases and is always the   *)
(* sum of the lengths of the payloads of the puts that returned True.  It  *)
(* changes only in the step in which a put, holding the write lock,        *)
(* returns True; that put recorded and stored its payload at the cursor    *)
(* it read on entry, which is still the cursor when it returns.  A put     *)
(* that returns False or None or raises leaves the cursor unchanged.       *)
(***************************************************************************)
RECURSIVE SumLen(_)
SumLen(S) ==
    IF S = {} THEN 0
    ELSE LET i == CHOOSE x \in S : TRUE
         IN  (IF stored[i] = NoVal THEN 0 ELSE Len(stored[i]))
                 + SumLen(S \ {i})

PutReturnsTrue(t) ==
    /\ pc[t] = "put_data" /\ pc'[t] = "done" /\ res'[t] = RTrue
    /\ mt => writer = t
    /\ lpos[t] = pos
    /\ index[arg_i[t]] = pack(lpos[t], Len(arg_data[t]))
    /\ pread(data, Len(arg_data[t]), lpos[t]) = arg_data[t]
    /\ pos' = pos + Len(arg_data[t])

C15_CursorStep ==
    /\ pos = SumLen(Slots)
    /\ pos' = (SumLen(Slots))'
    /\ pos' >= pos
    /\ pos' # pos => \E t \in Threads : PutReturnsTrue(t)
    /\ \A t \in Threads :
          (op[t] = "put" /\ pc[t] # "done" /\ pc'[t] = "done")
              => \/ PutReturnsTrue(t)
                 \/ res'[t] # RTrue /\ pos' = pos

C15_Cursor == [][C15_CursorStep]_vars

\* two puts have returned True and one has returned False
C15_Witness ==
    /\ pos = MaxLen + 1
    /\ \E t \in threads, u \in threads :
          /\ Done(t, "put") /\ res[t] = RTrue
          /\ Done(u, "put") /\ res[u] = RFalse

(***************************************************************************)
(* C16. The write loop of put recovers from partial writes.  While the     *)
(* loop runs, the bytes written so far are the first bytes of the payload, *)
(* byte k at offset pos + k, and never more than the payload; every turn   *)
(* that transfers bytes moves strictly forward (so the loop ends after at  *)
(* most len(payload) turns) and changes no byte of the data log outside    *)
(* the bytes it transferred; when the put returns True the whole payload   *)
(* is at pos .. pos + len(payload).  A write that transfers no byte ends   *)
(* the put with an AssertionError at once.                                 *)
(***************************************************************************)
Written(t) == current_pos[t] - lpos[t]

C16_LoopStep(t) ==
    /\ pc[t] = "put_data" =>
          /\ Written(t) >= 0 /\ Written(t) <= Len(arg_data[t])
          /\ pread(data, Written(t), lpos[t])
                 = SubSeq(arg_data[t], 1, Written(t))
    /\ (pc[t] = "put_data" /\ pc'[t] = "put_data") =>
          /\ current_pos'[t] > current_pos[t]
          /\ current_pos'[t] <= lpos[t] + Len(arg_data[t])
          /\ Len(data') = Max(Len(data), current_pos'[t])
          /\ \A k \in 1..Len(data) :
                (k <= current_pos[t] \/ k > current_pos'[t])
                    => data'[k] = data[k]
    /\ (pc[t] = "put_data" /\ pc'[t] = "done" /\ res'[t] = RTrue) =>
          /\ Written(t) = Len(arg_data[t])
          /\ pread(data', Len(arg_data[t]), lpos[t]) = arg_data[t]
    /\ (pc[t] = "put_data" /\ errno'[t] = "ZERO") =>
          /\ pc'[t] = "done"
          /\ res'[t] = Raise("AssertionError")
          /\ data' = data

C16_PartialWrites == [][\A t \in Threads : C16_LoopStep(t)]_vars

\* a put of two different bytes, behind another payload, is in the middle
\* of its loop: the first write transferred one byte of the two
C16_Witness ==
    \E t \in threads :
        /\ pc[t] = "put_data"
        /\ Len(arg_data[t]) = MaxLen
        /\ arg_data[t][1] # arg_data[t][MaxLen]
        /\ lpos[t] > 0
        /\ Written(t) = 1

(***************************************************************************)
(* C17. Admission to RWLock.  A thread at rdlock can go on exactly when no *)
(* writer is registered, whether or not another thread is waiting in       *)
(* wrlock, and going on registers it as a reader.  A thread at wrlock can  *)
(* go on exactly when no writer and no reader is registered, and going on  *)
(* registers it as the writer.                                             *)
(***************************************************************************)
C17_Admits(t) ==
    /\ pc[t] = "rdlock" => (ENABLED rdlock(t) <=> writer = None)
    /\ pc[t] = "wrlock" =>
          (ENABLED wrlock(t) <=> (writer = None /\ reader = {}))
    /\ (pc[t] = "rdlock" /\ pc'[t] # "rdlock") =>
          /\ writer = None /\ writer' = None
          /\ reader' = reader \cup {t}
    /\ (pc[t] = "wrlock" /\ pc'[t] # "wrlock") =>
          /\ writer = None /\ reader = {}
          /\ writer' = t /\ reader' = {}

C17_Admission == [][\A t \in Threads : C17_Admits(t)]_vars

\* a reader has been admitted and is inside its read section while another
\* thread waits in wrlock
C17_Witness ==
    \E t \in threads, u \in threads :
        /\ pc[t] = "_get" /\ t \in reader
        /\ pc[u] = "wrlock" /\ writer = None

(***************************************************************************)
(* C18. With RWLock, a get or put on a valid slot that runs while another  *)
(* thread closes the cache never uses a released handle and never raises:  *)
(* no finished get or put on a slot in range has raised.                   *)
(***************************************************************************)
C18_CloseRaceSafe ==
    \A t \in threads :
        (pc[t] = "done" /\ op[t] \in {"get", "put"} /\ InRange(arg_i[t]))
            => ~Raised(res[t])

(***************************************************************************)
(* C19. Freedom from deadlock.  When every thread makes a finite sequence  *)
(* of get, put and close calls and the threads are scheduled fairly, every *)
(* call that was started returns or raises.  A thread waits in rdlock or   *)
(* wrlock only while another thread is inside a read or write section, so  *)
(* in no reachable state are all threads waiting.                          *)
(***************************************************************************)
Waiting(t) ==
    \/ pc[t] = "rdlock" /\ writer # None
    \/ pc[t] = "wrlock" /\ (writer # None \/ reader # {})

Inside(t) == pc[t] \in {"_get", "_put", "put_data", "close_body"}

InCall(t) == pc[t] \notin {"idle", "done"}

C19_NoDeadlock ==
    /\ [](\A t \in Threads :
            Waiting(t) => \E u \in Threads \ {t} : Inside(u))
    /\ [](\E t \in Threads : ~Waiting(t))
    /\ \A t \in Threads : InCall(t) ~> pc[t] = "done"

\* a thread that is making its last call waits in wrlock for a reader
C19_Witness ==
    \E t \in threads, u \in threads :
        /\ pc[t] = "wrlock" /\ Waiting(t)
        /\ pc[u] = "_get" /\ u \in reader
        /\ calls[t] = 0

(***************************************************************************)
(* C20. The lock is released on every way out of a call: a thread that is  *)
(* not inside a call, because it has made none or because its last call    *)
(* returned or raised, is registered neither as the writer nor as a        *)
(* reader; nor is a thread that has not yet passed rdlock or wrlock.       *)
(***************************************************************************)
C20_LockReleased ==
    \A t \in Threads :
        pc[t] \in {"idle", "done", "rdlock", "wrlock"}
            => writer # t /\ t \notin reader

\* a get has left on the short-read assertion, a put on an OSError that is
\* not ENOSPC, and the lock is free
C20_Witness ==
    /\ GateFree
    /\ \E t \in threads, u \in threads :
          /\ Done(t, "get") /\ InRange(arg_i[t])
          /\ res[t] = Raise("AssertionError")
          /\ Done(u, "put") /\ res[u] = Raise("OSError")

====
